---- MODULE Spec2Model ----
(***************************************************************************)
(* A model of packages/react-server-cli/src/compileClient.js: the compile  *)
(* orchestrator (default export), the manifest extractor (statsToManifest),*)
(* the routes file synthesizer (writeWebpackCompatibleRoutesFile), the     *)
(* page normalizer (normalizeRoutesPage) and the bootstrap emitter         *)
(* (writeClientBootstrapFile).                                             *)
(*                                                                         *)
(* JavaScript strings, file names and paths are sequences of segments      *)
(* (TLA+ strings); concatenation is \o.  The JavaScript value undefined of *)
(* an optional string, path or file is the empty sequence: no name, file   *)
(* or path of the program is the empty string.  A JavaScript object is a   *)
(* function from its keys to its values; a key may hold undefined.         *)
(***************************************************************************)
EXTENDS Integers, Sequences, FiniteSets, TLC

VARIABLES
    \* ---- the compile orchestrator and the bundler around it (Spec)
    opts,       \* per invocation: the options compile was called with
    status,     \* per invocation: "idle", "threwConfig", "threwResolve", "returned"
    fs,         \* the file system: absolute file path -> content
    dirs,       \* the directories that exist
    compiler,   \* per invocation: the bundler configuration webpack() received
    plugins,    \* per invocation: how many "done" callbacks are registered
    promise,    \* per invocation: the serverRoutes promise
    effects,    \* per invocation: the side effects of its last handler, in order
    count,      \* per invocation: how often each completion side effect happened
    phase,      \* per invocation: the bundler's position
    stats,      \* per invocation: the compilation result of the running build
    built,      \* per invocation: the compilation result its callback last completed on
    hmr,        \* what the hot-module-reload coordinator was last notified with
    \* ---- the manifest extractor on its own (SpecManifest)
    mStats,     \* the compilation result under construction / extracted from
    mOut,       \* the extracted manifest
    mPhase,     \* "build", "extracted"
    \* ---- the route table functions on their own (SpecTable)
    tRoutes,    \* the route table
    tEntry,     \* the derived entrypoints
    tFile,      \* the synthesized routes file
    tPhase      \* "input", "derived", "written"

orchVars == <<opts, status, fs, dirs, compiler, plugins, promise, effects,
              count, phase, stats, built, hmr>>
manifestVars == <<mStats, mOut, mPhase>>
tableVars == <<tRoutes, tEntry, tFile, tPhase>>
vars == <<orchVars, manifestVars, tableVars>>

-----------------------------------------------------------------------------
(* JavaScript values *)

\* undefined, of an optional string, file name or path
Undefined == << >>

\* if (x): a string is truthy unless it is undefined (or empty)
Truthy(x) == x # Undefined

\* {}: an object literal without keys
EmptyObject == << >>

\* obj[k] = v
Put(obj, k, v) == [x \in (DOMAIN obj) \cup {k} |-> IF x = k THEN v ELSE obj[x]]

\* arr[i] for a 0-based index: undefined past the end
At(arr, i) == IF i + 1 \in DOMAIN arr THEN arr[i + 1] ELSE Undefined

\* JSON.stringify of an object of optional strings: a key holding undefined
\* is left out of the text
JSONstringifyObject(obj) ==
    [k \in {x \in DOMAIN obj : obj[x] # Undefined} |-> obj[k]]

-----------------------------------------------------------------------------
(* statsToManifest *)

\* /\.css$/.test(file)
IsCssFile(file) == Len(file) >= 1 /\ file[Len(file)] = ".css"

\* the loop of lines 160-167 from 0-based index i on: the index of the
\* first CSS file, or -1
RECURSIVE CssIndexFrom(_, _)
CssIndexFrom(files, i) ==
    IF ~(i < Len(files)) THEN -1
    ELSE IF IsCssFile(At(files, i)) THEN i
    ELSE CssIndexFrom(files, i + 1)

\* line 160: the scan starts after files[0], the JS file
\* (StartIndexZero: a scan from files[0] on)
StartIndexZero(files) == 0
StartIndex(files) == 1

\* one iteration of the loop over stats.compilation.chunks
ManifestStep(m, chunk) ==
    LET named == Truthy(chunk.name)
        css == CssIndexFrom(chunk.files, StartIndex(chunk.files))
        byName == IF named THEN Put(m.jsChunksByName, chunk.name, At(chunk.files, 0))
                  ELSE m.jsChunksByName
        cssByName == IF named /\ css >= 0
                     THEN Put(m.cssChunksByName, chunk.name, At(chunk.files, css))
                     ELSE m.cssChunksByName
    IN  [m EXCEPT !.jsChunksByName = byName,
                  !.cssChunksByName = cssByName,
                  !.jsChunksById = Put(m.jsChunksById, chunk.id, At(chunk.files, 0))]

RECURSIVE ManifestLoop(_, _, _)
ManifestLoop(m, chunks, i) ==
    IF i > Len(chunks) THEN m
    ELSE ManifestLoop(ManifestStep(m, chunks[i]), chunks, i + 1)

statsToManifest(s) ==
    ManifestLoop([jsChunksByName |-> EmptyObject, jsChunksById |-> EmptyObject,
                  cssChunksByName |-> EmptyObject, hash |-> s.hash],
                 s.chunks, 1)

\* JSON.stringify(manifest)
JSONstringifyManifest(m) ==
    [jsChunksByName |-> JSONstringifyObject(m.jsChunksByName),
     jsChunksById |-> JSONstringifyObject(m.jsChunksById),
     cssChunksByName |-> JSONstringifyObject(m.cssChunksByName),
     hash |-> m.hash]

-----------------------------------------------------------------------------
(* paths *)

\* process.cwd()
Cwd == <<"/", "app">>

IsAbsolute(p) == Len(p) >= 1 /\ p[1] = "/"

\* path.resolve(base, rel) and path.join(base, rel), for a relative or
\* absolute rel without ".." segments; "." is the base itself
PathResolve(base, rel) ==
    IF IsAbsolute(rel) THEN rel
    ELSE IF rel = <<".">> THEN base
    ELSE base \o rel

PathJoin(dir, name) == dir \o name

\* path.relative(from, to), kept as the pair it is computed from
PathRelative(from, to) == [from |-> from, to |-> to]

\* the page and middleware modules that exist under the routes directory
ModulesOnDisk ==
    { Cwd \o <<"pages", "home.js">>, Cwd \o <<"pages", "about.js">>,
      Cwd \o <<"pages", "about.amp.js">>, Cwd \o <<"middleware", "auth.js">> }

\* require.resolve(p) throws unless the module exists
Resolvable(p) == p \in ModulesOnDisk

-----------------------------------------------------------------------------
(* normalizeRoutesPage and the entrypoints loop *)

\* the format name "default"
Default == <<"d", "e", "f", "a", "u", "l", "t">>

\* a page given as a string (typeof page === "string")
StringPage(module) == [isString |-> TRUE, module |-> module, formats |-> << >>]
\* a page given as an object: format name -> module, in key order
ObjectPage(formats) == [isString |-> FALSE, module |-> Undefined, formats |-> formats]

normalizeRoutesPage(page) ==
    IF page.isString THEN << [format |-> Default, module |-> page.module] >>
    ELSE page.formats

\* (EntryNameRouteOnly: an entry name without its format)
EntryNameRouteOnly(routeName, format) == routeName

\* `${routeName}${format !== "default" ? "-" + format : ""}`
EntryName(routeName, format) ==
    routeName \o (IF format # Default THEN <<"-">> \o format ELSE << >>)

\* the inner loop of lines 68-76 from the j-th format on; acc.threw is set
\* by a require.resolve that throws, which ends both loops
RECURSIVE EntryFormats(_, _, _, _, _)
EntryFormats(acc, routeName, formats, j, ctx) ==
    IF acc.threw \/ j > Len(formats) THEN acc
    ELSE LET absolutePathToPage ==
                 PathResolve(ctx.routesDirAbsolute, formats[j].module)
         IN  IF ~Resolvable(absolutePathToPage)
             THEN [acc EXCEPT !.threw = TRUE]
             ELSE EntryFormats(
                    [acc EXCEPT !.entrypoints =
                        Put(@, EntryName(routeName, formats[j].format),
                            ctx.entrypointBase
                              \o <<ctx.bootstrapFile, absolutePathToPage>>)],
                    routeName, formats, j + 1, ctx)

\* the outer loop of lines 65-77 from the i-th route on
RECURSIVE EntryRoutes(_, _, _, _)
EntryRoutes(acc, routes, i, ctx) ==
    IF acc.threw \/ i > Len(routes) THEN acc
    ELSE EntryRoutes(
           EntryFormats(acc, routes[i].name,
                        normalizeRoutesPage(routes[i].page), 1, ctx),
           routes, i + 1, ctx)

\* lines 64-77: [threw, entrypoints]
DeriveEntrypoints(routes, ctx) ==
    EntryRoutes([threw |-> FALSE, entrypoints |-> EmptyObject], routes, 1, ctx)

\* lines 60-63
EntrypointBase(hot, webpackDevServerClientUrl) ==
    IF hot THEN << <<"webpack-dev-server/client", "?">> \o webpackDevServerClientUrl,
                   <<"webpack/hot/only-dev-server">> >>
    ELSE << >>

\* outputUrl = "/static/"
DefaultOutputUrl == <<"/", "static/">>

\* lines 55-59: /^\/\//.test(outputUrl)
WebpackDevServerClientUrl(outputUrl) ==
    IF Len(outputUrl) >= 2 /\ outputUrl[1] = "/" /\ outputUrl[2] = "/"
    THEN <<"http:">> \o outputUrl
    ELSE outputUrl

-----------------------------------------------------------------------------
(* writeWebpackCompatibleRoutesFile *)

\* a route's method: a JavaScript value of type t; items are the segments
\* of a string, the elements of an array or the keys of an object
JsUndefined == [t |-> "undefined", items |-> << >>]
JsNull == [t |-> "null", items |-> << >>]
JsString(s) == [t |-> "string", items |-> s]
JsArray(a) == [t |-> "array", items |-> a]
JsObject(keys) == [t |-> "object", items |-> keys]

\* method === {}: identity with an object that was just created
StrictEqualsNewObject(m) == FALSE

\* method.length === 0: strings and arrays have a length
LengthIsZero(m) == m.t \in {"string", "array"} /\ Len(m.items) = 0

\* lines 206-211
NormalizeMethod(method) ==
    IF method = JsUndefined \/ method = JsNull \/ StrictEqualsNewObject(method)
       \/ LengthIsZero(method)
    THEN JsUndefined
    ELSE method

\* `${JSON.stringify(method)}`: the text put after "method: "
MethodText(m) ==
    CASE m.t = "undefined" -> <<"undefined">>
      [] m.t = "null" -> <<"null">>
      [] m.t = "string" -> <<"\"">> \o m.items \o <<"\"">>
      [] m.t = "array" -> <<"[">> \o m.items \o <<"]">>
      [] m.t = "object" -> <<"{">> \o m.items \o <<"}">>

\* `${manifest ? JSON.stringify(manifest) : "undefined"}`
NoManifest == [undefined |-> TRUE]
ManifestText(manifest) ==
    IF manifest = NoManifest THEN NoManifest ELSE JSONstringifyManifest(manifest)

\* lines 221-245: the loaders of one route, one per format
PageText(formats, routesDir, workingDirAbsolute, isClient) ==
    [j \in 1..Len(formats) |->
        [format |-> formats[j].format,
         loader |-> IF isClient THEN "require.ensure" ELSE "require",
         module |-> PathRelative(workingDirAbsolute,
                                 PathResolve(PathResolve(Cwd, routesDir),
                                             formats[j].module))]]

\* lines 200-249: one entry per route, in key order
RoutesText(routes, routesDir, workingDirAbsolute, isClient) ==
    [i \in 1..Len(routes) |->
        [name |-> routes[i].name,
         path |-> routes[i].path,
         method |-> MethodText(NormalizeMethod(routes[i].method)),
         page |-> PageText(normalizeRoutesPage(routes[i].page), routesDir,
                           workingDirAbsolute, isClient)]]

\* lines 184-186: routes.middleware, when given
MiddlewareText(middleware, routesDir, workingDirAbsolute) ==
    IF Truthy(middleware)
    THEN [k \in 1..Len(middleware) |->
            PathRelative(workingDirAbsolute,
                         PathResolve(PathResolve(Cwd, routesDir), middleware[k]))]
    ELSE << >>

\* lines 181-254: routesContent
RoutesContent(table, routesDir, workingDirAbsolute, staticUrl, isClient, manifest) ==
    [manifest |-> ManifestText(manifest),
     staticUrl |-> staticUrl,
     middleware |-> MiddlewareText(table.middleware, routesDir, workingDirAbsolute),
     routes |-> RoutesText(table.routes, routesDir, workingDirAbsolute, isClient)]

\* (RoutesFilePathFixed: the routes file under the default working directory,
\* whatever the working directory of the invocation)
RoutesFilePathFixed(workingDirAbsolute, isClient) ==
    Cwd \o <<"__clientTemp">>
        \o << IF isClient THEN "routes_client.js" ELSE "routes_server.js" >>

\* line 257: `${workingDirAbsolute}/routes_${isClient ? "client" : "server"}.js`
RoutesFileName(isClient) == IF isClient THEN "routes_client.js" ELSE "routes_server.js"
RoutesFilePath(workingDirAbsolute, isClient) ==
    workingDirAbsolute \o <<RoutesFileName(isClient)>>

\* lines 277-298: the bootstrap file's path and content
BootstrapFilePath(outputDir) == outputDir \o <<"entry.js">>
BootstrapContent(o) == [bootstrap |-> TRUE, logLevel |-> o.logLevel]

-----------------------------------------------------------------------------
(* The manifest extractor on its own: the bundler builds a compilation     *)
(* result chunk by chunk and file by file, then statsToManifest is applied *)
(* to it.                                                                  *)

\* the most files one compilation holds, over all its chunks
MaxFiles == 4

\* chunk ids are unique within a compilation, and so are chunk names
ChunkIds == {1, 2}
ChunkNames == { <<"home">>, <<"x">> }
FileNames == { <<"x", ".js">>, <<"x", ".abc123", ".hot-update", ".js">>,
               <<"x", ".css">>, <<"y", ".css">> }
Hashes == { <<"abc">>, <<"def">> }

NoResult == [none |-> TRUE]

RECURSIVE TotalFiles(_, _)
TotalFiles(chunks, i) ==
    IF i > Len(chunks) THEN 0 ELSE Len(chunks[i].files) + TotalFiles(chunks, i + 1)

ChunkSet(chunks) == { chunks[i] : i \in 1..Len(chunks) }

ManifestIdle ==
    /\ mStats = [hash |-> <<"abc">>, chunks |-> << >>]
    /\ mOut = NoResult
    /\ mPhase = "off"

ManifestInit ==
    /\ mStats \in [hash : Hashes, chunks : { << >> }]
    /\ mOut = NoResult
    /\ mPhase = "build"

\* the bundler adds a chunk, named or not, to the compilation
AddChunk(id, name) ==
    /\ mPhase = "build"
    /\ id \notin { c.id : c \in ChunkSet(mStats.chunks) }
    /\ Truthy(name) => name \notin { c.name : c \in ChunkSet(mStats.chunks) }
    /\ mStats' = [mStats EXCEPT !.chunks =
                    Append(@, [id |-> id, name |-> name, files |-> << >>])]
    /\ UNCHANGED <<mOut, mPhase, orchVars, tableVars>>

\* the bundler adds an output file to the chunk it added last
AddFile(file) ==
    /\ mPhase = "build"
    /\ Len(mStats.chunks) >= 1
    /\ TotalFiles(mStats.chunks, 1) < MaxFiles
    /\ mStats' = [mStats EXCEPT !.chunks[Len(mStats.chunks)].files = Append(@, file)]
    /\ UNCHANGED <<mOut, mPhase, orchVars, tableVars>>

\* statsToManifest(stats)
Extract ==
    /\ mPhase = "build"
    /\ mOut' = statsToManifest(mStats)
    /\ mPhase' = "extracted"
    /\ UNCHANGED <<mStats, orchVars, tableVars>>

-----------------------------------------------------------------------------
(* The route table functions on their own: the entrypoints loop and the    *)
(* routes file synthesizer applied to a route table.                       *)

\* the most routes of a route table
MaxRoutes == 2

\* route names are the keys of routes.routes: unique within a table
RouteNames == { <<"A">>, <<"B">>, <<"A", "-", "b">> }

HomeModule == <<"pages", "home.js">>
AboutModule == <<"pages", "about.js">>
AmpModule == <<"pages", "about.amp.js">>
MissingModule == <<"pages", "gone.js">>

Methods ==
    { JsUndefined, JsNull, JsString(<< >>), JsArray(<< >>), JsObject(<< >>),
      JsString(<<"GET">>), JsArray(<<"GET">>) }

Pages ==
    { StringPage(HomeModule),
      StringPage(MissingModule),
      ObjectPage(<< [format |-> Default, module |-> AboutModule] >>),
      ObjectPage(<< [format |-> <<"b">>, module |-> AmpModule] >>),
      ObjectPage(<< [format |-> <<"b", "-", "c">>, module |-> AmpModule] >>),
      ObjectPage(<< [format |-> Default, module |-> AboutModule],
                    [format |-> <<"b">>, module |-> AmpModule] >>) }

\* a route varies in its method or in its page
RouteShapes ==
    [method : Methods, page : {StringPage(HomeModule)}]
      \cup [method : {JsString(<<"GET">>)}, page : Pages]

Route(name, shape) ==
    [name |-> name, path |-> <<"/">> \o name, method |-> shape.method,
     page |-> shape.page]

NoMiddleware == Undefined

TableIdle ==
    /\ tRoutes = [middleware |-> NoMiddleware, routes |-> << >>]
    /\ tEntry = NoResult
    /\ tFile = NoResult
    /\ tPhase = "off"

TableInit ==
    /\ tRoutes = [middleware |-> NoMiddleware, routes |-> << >>]
    /\ tEntry = NoResult
    /\ tFile = NoResult
    /\ tPhase = "input"

\* the caller adds a route under a new name to the table
AddRoute(name, shape) ==
    /\ tPhase = "input"
    /\ Len(tRoutes.routes) < MaxRoutes
    /\ name \notin { tRoutes.routes[i].name : i \in 1..Len(tRoutes.routes) }
    /\ tRoutes' = [tRoutes EXCEPT !.routes = Append(@, Route(name, shape))]
    /\ UNCHANGED <<tEntry, tFile, tPhase, orchVars, manifestVars>>

TableCtx ==
    [routesDirAbsolute |-> Cwd,
     entrypointBase |-> EntrypointBase(FALSE, DefaultOutputUrl),
     bootstrapFile |-> BootstrapFilePath(Cwd \o <<"__clientTemp">>)]

\* the entrypoints loop of compile
Derive ==
    /\ tPhase = "input"
    /\ tEntry' = DeriveEntrypoints(tRoutes.routes, TableCtx)
    /\ tPhase' = "derived"
    /\ UNCHANGED <<tRoutes, tFile, orchVars, manifestVars>>

\* writeWebpackCompatibleRoutesFile(routes, routesDir, workingDirAbsolute, ...)
Synthesize(isClient) ==
    /\ tPhase = "derived"
    /\ tFile' = RoutesContent(tRoutes, <<".">>, Cwd \o <<"__clientTemp">>,
                              DefaultOutputUrl, isClient, NoManifest)
    /\ tPhase' = "written"
    /\ UNCHANGED <<tRoutes, tEntry, orchVars, manifestVars>>

-----------------------------------------------------------------------------
(* The compile orchestrator *)

\* the compile invocations of one process
Invs == {1, 2}

\* the most builds the caller runs in all, on its compilers together (a
\* compiler is built again on each rebuild in watch mode)
MaxBuilds == 3

\* workingDir = "./__clientTemp", outputDir = workingDir + "/build"
WorkingDir(o) == IF o.workingDir = Undefined THEN <<"__clientTemp">> ELSE o.workingDir
OutputDir(o) == IF o.outputDir = Undefined THEN WorkingDir(o) \o <<"build">> ELSE o.outputDir
RoutesDir(o) == <<".">>
OutputUrl(o) == DefaultOutputUrl

WorkingDirAbsolute(o) == PathResolve(Cwd, WorkingDir(o))
OutputDirAbsolute(o) == PathResolve(Cwd, OutputDir(o))

\* the file a path names for fs: a relative path is taken from process.cwd()
FsPath(p) == PathResolve(Cwd, p)

\* fs.writeFileSync(path, content)
WriteFile(f, path, content) == Put(f, FsPath(path), content)

\* fs.unlinkSync(path) of a file that exists
Unlink(f, path) == [q \in (DOMAIN f) \ {FsPath(path)} |-> f[q]]

\* mkdirp.sync(dir): the directory and the ancestors it lacks
Mkdirp(d, dir) == d \cup { SubSeq(dir, 1, n) : n \in 1..Len(dir) }

Effect(op, path) == [op |-> op, path |-> path]

NoCompiler == [none |-> TRUE]
NoOpts == [none |-> TRUE]
NoStats == [none |-> TRUE]
NoPromise == [state |-> "none", value |-> Undefined, settled |-> 0]

\* new Promise(...)
NewPromise == [state |-> "pending", value |-> Undefined, settled |-> 0]

\* (ResolveAgain: a future that a second resolve settles again)
ResolveAgain(p, value) ==
    [state |-> "resolved", value |-> value, settled |-> p.settled + 1]

\* resolve(value): settles a pending promise, and does nothing to a settled one
Resolve(p, value) ==
    IF p.state = "pending"
    THEN [state |-> "resolved", value |-> value, settled |-> p.settled + 1]
    ELSE p

\* lines 129-140 without a user configuration: the base configuration built
\* from the options that affect it
getWebpackConfig(wpAffectingOpts) == wpAffectingOpts

\* line 33
ConfigError(o) == o.longTermCaching /\ o.hot

\* what compile leaves behind when it throws
Thrown(how, f, d, eff) ==
    [status |-> how, fs |-> f, dirs |-> d, effects |-> eff,
     compiler |-> NoCompiler, plugins |-> 0, promise |-> NoPromise]

\* lines 39-47: the directories and the bootstrap file
Prepare(f, d, o) ==
    [fs |-> WriteFile(f, BootstrapFilePath(WorkingDirAbsolute(o)), BootstrapContent(o)),
     dirs |-> Mkdirp(Mkdirp(d, WorkingDirAbsolute(o)), OutputDirAbsolute(o)),
     effects |-> << Effect("mkdirp", WorkingDirAbsolute(o)),
                    Effect("mkdirp", OutputDirAbsolute(o)),
                    Effect("write", BootstrapFilePath(WorkingDirAbsolute(o))) >>]

\* what the entrypoints loop is given
EntryCtx(o) ==
    [routesDirAbsolute |-> PathResolve(Cwd, RoutesDir(o)),
     entrypointBase |-> EntrypointBase(o.hot, WebpackDevServerClientUrl(OutputUrl(o))),
     bootstrapFile |-> BootstrapFilePath(WorkingDirAbsolute(o))]

\* lines 79-123: the client routes file, the configuration, the compiler,
\* the promise and its done callback
Finish(pre, o, entrypoints) ==
    [status |-> "returned",
     fs |-> WriteFile(pre.fs, RoutesFilePath(WorkingDirAbsolute(o), TRUE),
                      RoutesContent(o.routes, RoutesDir(o), WorkingDirAbsolute(o),
                                    Undefined, TRUE, NoManifest)),
     dirs |-> pre.dirs,
     effects |-> pre.effects \o
                 << Effect("write", RoutesFilePath(WorkingDirAbsolute(o), TRUE)),
                    Effect("getWebpackConfig", Undefined),
                    Effect("webpack", Undefined),
                    Effect("plugin", Undefined) >>,
     compiler |-> getWebpackConfig(
                    [isServer |-> FALSE, outputDir |-> OutputDirAbsolute(o),
                     entrypoints |-> entrypoints, outputUrl |-> OutputUrl(o),
                     hot |-> o.hot, longTermCaching |-> o.longTermCaching]),
     plugins |-> 1,
     promise |-> NewPromise]

\* (SetupRoutesFirst: the client routes file written before the entrypoints
\* loop)
SetupRoutesFirst(f, d, o) ==
    LET pre == Prepare(f, d, o)
        derived == DeriveEntrypoints(o.routes.routes, EntryCtx(o))
        fin == Finish(pre, o, derived.entrypoints)
    IN  IF derived.threw
        THEN Thrown("threwResolve", fin.fs, fin.dirs,
                    pre.effects \o << Effect("write", RoutesFilePath(WorkingDirAbsolute(o), TRUE)) >>)
        ELSE fin

\* lines 39-123: compile once the options are found valid
Setup(f, d, o) ==
    LET pre == Prepare(f, d, o)
        derived == DeriveEntrypoints(o.routes.routes, EntryCtx(o))
    IN  IF derived.threw
        THEN Thrown("threwResolve", pre.fs, pre.dirs, pre.effects)
        ELSE Finish(pre, o, derived.entrypoints)

\* (CompileResultLateCheck: the options checked after the directories and
\* the bootstrap file are made)
CompileResultLateCheck(f, d, o) ==
    LET pre == Prepare(f, d, o)
    IN  IF ConfigError(o) THEN Thrown("threwConfig", pre.fs, pre.dirs, pre.effects)
        ELSE Setup(f, d, o)

\* lines 19-124: compile(opts) on file system f with directories d
CompileResult(f, d, o) ==
    IF ConfigError(o) THEN Thrown("threwConfig", f, d, << >>)
    ELSE Setup(f, d, o)

-----------------------------------------------------------------------------
(* The done callback *)

\* (DeletesChunkManifestNever: chunk-manifest.json left in place)
DeletesChunkManifestNever(hot) == FALSE

\* line 106: chunk-manifest.json is deleted when not in hot mode
DeletesChunkManifest(hot) == ~hot

\* line 112: the hot-module-reload coordinator is notified in hot mode
NotifiesHotReload(hot) == hot

\* lines 102 and 107 join outputDir as given, not outputDirAbsolute: fs takes
\* the path from process.cwd(), which the program does not change
ManifestPath(o) == PathJoin(OutputDir(o), <<"manifest.json">>)
ChunkManifestPath(o) == PathJoin(OutputDir(o), <<"chunk-manifest.json">>)

ManifestFile(manifest) == [json |-> JSONstringifyManifest(manifest)]

ServerRoutesContent(o, manifest) ==
    RoutesContent(o.routes, RoutesDir(o), WorkingDirAbsolute(o), OutputUrl(o),
                  FALSE, manifest)

\* lines 100-117: the callback on file system f, for the compilation result
\* st, with promise p; fs.unlinkSync of a file that does not exist throws,
\* and what follows it is not run
DoneResult(f, o, st, p) ==
    LET manifest == statsToManifest(st)
        f1 == WriteFile(f, ManifestPath(o), ManifestFile(manifest))
        e1 == << Effect("statsToManifest", Undefined),
                 Effect("write", FsPath(ManifestPath(o))) >>
        unlinks == DeletesChunkManifest(o.hot)
        threw == unlinks /\ FsPath(ChunkManifestPath(o)) \notin DOMAIN f1
        f2 == IF unlinks THEN Unlink(f1, ChunkManifestPath(o)) ELSE f1
        e2 == IF unlinks THEN e1 \o << Effect("unlink", FsPath(ChunkManifestPath(o))) >>
              ELSE e1
        routesFilePath == RoutesFilePath(WorkingDirAbsolute(o), FALSE)
        f3 == WriteFile(f2, routesFilePath, ServerRoutesContent(o, manifest))
        e3 == e2 \o << Effect("write", routesFilePath) >>
        notifies == NotifiesHotReload(o.hot)
        e4 == IF notifies THEN e3 \o << Effect("serverSideHotModuleReload", Undefined) >>
              ELSE e3
    IN  IF threw
        THEN [fs |-> f1, promise |-> p,
              effects |-> e2 \o << Effect("throw", Undefined) >>]
        ELSE [fs |-> f3, promise |-> Resolve(p, routesFilePath),
              effects |-> e4 \o << Effect("resolve", routesFilePath) >>]

-----------------------------------------------------------------------------
(* The orchestrator's state machine *)

\* the compilation results a build may end with
HomeChunk == [id |-> 1, name |-> <<"A">>, files |-> << <<"x", ".js">>, <<"x", ".css">> >>]
VendorChunk == [id |-> 2, name |-> Undefined, files |-> << <<"x", ".js">> >>]
CompilationResults ==
    { [hash |-> <<"abc">>, chunks |-> << HomeChunk, VendorChunk >>],
      [hash |-> <<"def">>, chunks |-> << VendorChunk >>] }

\* the route tables compile is called with
HomeRoute == Route(<<"A">>, [method |-> JsString(<<"GET">>), page |-> StringPage(HomeModule)])
AboutRoute ==
    Route(<<"B">>, [method |-> JsUndefined,
                    page |-> ObjectPage(<< [format |-> Default, module |-> AboutModule],
                                           [format |-> <<"b">>, module |-> AmpModule] >>)])
GoneRoute == Route(<<"B">>, [method |-> JsUndefined, page |-> StringPage(MissingModule)])
RouteTables ==
    { [middleware |-> NoMiddleware, routes |-> << HomeRoute >>],
      [middleware |-> << <<"middleware", "auth.js">> >>, routes |-> << HomeRoute, AboutRoute >>],
      [middleware |-> NoMiddleware, routes |-> << HomeRoute, GoneRoute >>] }

\* the options compile is called with: without long-term caching every
\* route table in every directory layout, with it the default layout;
\* hot and longTermCaching are given explicitly
Options ==
    [routes : RouteTables,
     workingDir : {Undefined, <<"out">>},
     outputDir : {Undefined, <<"out">>},
     hot : BOOLEAN,
     longTermCaching : {FALSE},
     logLevel : {Undefined}]
    \cup
    [routes : RouteTables,
     workingDir : {Undefined},
     outputDir : {Undefined},
     hot : BOOLEAN,
     longTermCaching : {TRUE},
     logLevel : {Undefined}]

NoCount == [builds |-> 0, done |-> 0, manifest |-> 0, unlink |-> 0, routes |-> 0,
            hmr |-> 0, resolve |-> 0]

OrchInit ==
    /\ opts = [i \in Invs |-> NoOpts]
    /\ status = [i \in Invs |-> "idle"]
    /\ fs = EmptyObject
    /\ dirs = Mkdirp({}, Cwd)
    /\ compiler = [i \in Invs |-> NoCompiler]
    /\ plugins = [i \in Invs |-> 0]
    /\ promise = [i \in Invs |-> NoPromise]
    /\ effects = [i \in Invs |-> << >>]
    /\ count = [i \in Invs |-> NoCount]
    /\ phase = [i \in Invs |-> "none"]
    /\ stats = [i \in Invs |-> NoStats]
    /\ built = [i \in Invs |-> NoStats]
    /\ hmr = NoStats

OrchIdle == OrchInit

RECURSIVE SumBuilds(_)
SumBuilds(S) ==
    IF S = {} THEN 0
    ELSE LET i == CHOOSE x \in S : TRUE IN count[i].builds + SumBuilds(S \ {i})
TotalBuilds == SumBuilds(Invs)

\* compile(o), called by the program for invocation i; the invocations are
\* numbered in the order of the calls
Compile(i, o) ==
    /\ status[i] = "idle"
    /\ \A j \in Invs : j < i => status[j] # "idle"
    /\ LET r == CompileResult(fs, dirs, o)
       IN  /\ opts' = [opts EXCEPT ![i] = o]
           /\ status' = [status EXCEPT ![i] = r.status]
           /\ fs' = r.fs
           /\ dirs' = r.dirs
           /\ effects' = [effects EXCEPT ![i] = r.effects]
           /\ compiler' = [compiler EXCEPT ![i] = r.compiler]
           /\ plugins' = [plugins EXCEPT ![i] = r.plugins]
           /\ promise' = [promise EXCEPT ![i] = r.promise]
           /\ phase' = [phase EXCEPT ![i] = IF r.status = "returned" THEN "ready" ELSE "none"]
    /\ UNCHANGED <<count, stats, built, hmr, manifestVars, tableVars>>

\* the caller runs the compiler (run, or a rebuild under watch): the bundler
\* emits its assets into the configured output directory, among them
\* chunk-manifest.json when the configuration is not hot
Build(i, st) ==
    /\ phase[i] = "ready"
    /\ TotalBuilds < MaxBuilds
    /\ fs' = IF compiler[i].hot THEN fs
             ELSE WriteFile(fs, compiler[i].outputDir \o <<"chunk-manifest.json">>,
                            [chunkManifest |-> st.hash])
    /\ stats' = [stats EXCEPT ![i] = st]
    /\ phase' = [phase EXCEPT ![i] = "emitted"]
    /\ count' = [count EXCEPT ![i].builds = @ + 1]
    /\ UNCHANGED <<opts, status, dirs, compiler, plugins, promise, effects, built, hmr,
                   manifestVars, tableVars>>

\* (RegisteredAfterDoneOnce: a callback that is dropped once it has run)
RegisteredAfterDoneOnce(n) == 0

\* line 100: compiler.plugin("done", ...) registers the callback for every
\* done event; the n callbacks registered stay registered after one
RegisteredAfterDone(n) == n

\* how many effects of a handler are the operation op
Times(eff, op) == Cardinality({ k \in 1..Len(eff) : eff[k].op = op })
Did(eff, op) == Times(eff, op) > 0

\* the bundler signals "done": the callback registered by compile, if it is
\* still registered, runs
Done(i) ==
    /\ phase[i] = "emitted"
    /\ phase' = [phase EXCEPT ![i] = "ready"]
    /\ IF plugins[i] >= 1
       THEN LET r == DoneResult(fs, opts[i], stats[i], promise[i])
                o == opts[i]
            IN  /\ fs' = r.fs
                /\ promise' = [promise EXCEPT ![i] = r.promise]
                /\ effects' = [effects EXCEPT ![i] = r.effects]
                /\ hmr' = IF Did(r.effects, "serverSideHotModuleReload") THEN stats[i] ELSE hmr
                /\ built' = [built EXCEPT ![i] = IF Did(r.effects, "resolve") THEN stats[i] ELSE @]
                /\ plugins' = [plugins EXCEPT ![i] = RegisteredAfterDone(@)]
                /\ count' = [count EXCEPT
                       ![i].done = @ + 1,
                       ![i].manifest = @ + Cardinality({ k \in 1..Len(r.effects) :
                             r.effects[k] = Effect("write", FsPath(ManifestPath(o))) }),
                       ![i].unlink = @ + (IF Did(r.effects, "throw") THEN 0
                                          ELSE Times(r.effects, "unlink")),
                       ![i].routes = @ + Cardinality({ k \in 1..Len(r.effects) :
                             r.effects[k] = Effect("write", RoutesFilePath(WorkingDirAbsolute(o), FALSE)) }),
                       ![i].hmr = @ + Times(r.effects, "serverSideHotModuleReload"),
                       ![i].resolve = @ + Times(r.effects, "resolve")]
       ELSE UNCHANGED <<fs, promise, effects, hmr, built, plugins, count>>
    /\ UNCHANGED <<opts, status, dirs, compiler, stats, manifestVars, tableVars>>

-----------------------------------------------------------------------------
(* Specifications *)

\* the compile orchestrator with the bundler
Init == OrchInit /\ ManifestIdle /\ TableIdle
Next ==
    \/ \E i \in Invs, o \in Options : Compile(i, o)
    \/ \E i \in Invs, st \in CompilationResults : Build(i, st)
    \/ \E i \in Invs : Done(i)
Spec == Init /\ [][Next]_vars

\* statsToManifest on the compilation results the bundler can build
InitManifest == OrchIdle /\ ManifestInit /\ TableIdle
NextManifest ==
    \/ \E id \in ChunkIds, name \in ChunkNames \cup {Undefined} : AddChunk(id, name)
    \/ \E file \in FileNames : AddFile(file)
    \/ Extract
SpecManifest == InitManifest /\ [][NextManifest]_vars

\* the entrypoints loop and the routes file synthesizer on route tables
InitTable == OrchIdle /\ ManifestIdle /\ TableInit
NextTable ==
    \/ \E name \in RouteNames, shape \in RouteShapes : AddRoute(name, shape)
    \/ Derive
    \/ \E isClient \in BOOLEAN : Synthesize(isClient)
SpecTable == InitTable /\ [][NextTable]_vars

-----------------------------------------------------------------------------
(* Claims about the manifest extractor (SpecManifest) *)

Chunks == ChunkSet(mStats.chunks)
Named(c) == c.name # Undefined
EndsInCss(file) == file # << >> /\ file[Len(file)] = ".css"
\* the positions after the first of a chunk's files that hold a CSS file
CssPositions(c) == { k \in 2..Len(c.files) : EndsInCss(c.files[k]) }
Least(S) == CHOOSE k \in S : \A l \in S : k <= l

\* C6: extracted from chunks that each have at least one file, jsChunksByName
\* maps exactly the names of the named chunks to files[0], cssChunksByName
\* maps a chunk name to the first entry of files[1:] ending in ".css" and has
\* no key for a named chunk without such an entry, jsChunksById maps every
\* chunk id to files[0], and hash is the compilation hash.
C6_ManifestExtraction ==
    (mPhase = "extracted" /\ \A c \in Chunks : Len(c.files) >= 1) =>
        /\ DOMAIN mOut.jsChunksByName = { c.name : c \in { d \in Chunks : Named(d) } }
        /\ DOMAIN mOut.jsChunksById = { c.id : c \in Chunks }
        /\ DOMAIN mOut.cssChunksByName =
              { c.name : c \in { d \in Chunks : Named(d) /\ CssPositions(d) # {} } }
        /\ \A c \in Chunks :
              /\ mOut.jsChunksById[c.id] = c.files[1]
              /\ Named(c) => mOut.jsChunksByName[c.name] = c.files[1]
              /\ (Named(c) /\ CssPositions(c) # {}) =>
                    mOut.cssChunksByName[c.name] = c.files[Least(CssPositions(c))]
        /\ mOut.hash = mStats.hash

\* a named chunk whose CSS file follows a hot-update file and precedes a
\* second CSS file, beside an unnamed chunk, has been extracted from
C6_Witness ==
    /\ mPhase = "extracted"
    /\ \E c \in Chunks :
          /\ c.name = <<"x">>
          /\ c.files = << <<"x", ".js">>, <<"x", ".abc123", ".hot-update", ".js">>,
                          <<"x", ".css">> >>
          /\ mOut.cssChunksByName[c.name] = <<"x", ".css">>
    /\ \E c \in Chunks : ~Named(c) /\ Len(c.files) = 1

\* C7: a chunk with zero files gets no entry in jsChunksByName,
\* cssChunksByName or jsChunksById.
C7_ZeroFileChunkSkipped ==
    mPhase = "extracted" =>
        \A c \in Chunks : Len(c.files) = 0 =>
            /\ c.id \notin DOMAIN mOut.jsChunksById
            /\ Named(c) => /\ c.name \notin DOMAIN mOut.jsChunksByName
                           /\ c.name \notin DOMAIN mOut.cssChunksByName

-----------------------------------------------------------------------------
(* Claims about the route table functions (SpecTable) *)

TableRoutes == { tRoutes.routes[i] : i \in 1..Len(tRoutes.routes) }
FormatsOf(r) ==
    IF r.page.isString THEN { Default }
    ELSE { r.page.formats[j].format : j \in 1..Len(r.page.formats) }
HasHyphen(name) == \E k \in 1..Len(name) : name[k] = "-"

RECURSIVE FormatCount(_, _)
FormatCount(routes, i) ==
    IF i > Len(routes) THEN 0
    ELSE Cardinality(FormatsOf(routes[i])) + FormatCount(routes, i + 1)

\* the entry name the naming rule gives a (route, format) pair
RuleName(r, f) == IF f = Default THEN r.name ELSE r.name \o <<"-">> \o f

RouteFormatPairs ==
    { p \in TableRoutes \X UNION { FormatsOf(r) : r \in TableRoutes } : p[2] \in FormatsOf(p[1]) }

Derived == tPhase \in {"derived", "written"} /\ ~tEntry.threw

\* the entrypoints are one per (route, format) pair, under the rule's names
OnePerPair ==
    /\ DOMAIN tEntry.entrypoints = { RuleName(p[1], p[2]) : p \in RouteFormatPairs }
    /\ Cardinality(DOMAIN tEntry.entrypoints) = FormatCount(tRoutes.routes, 1)

\* C5 (as claimed): for a route table with unique route names the entrypoints
\* are exactly one per (route, format) pair, named R for the format "default"
\* and R-format otherwise, and no two pairs share an entry name.
C5_EntryNamesDistinct == Derived => OnePerPair

\* C5 (amended): the same, for a route table none of whose route names
\* contains a hyphen.
C5_EntryNamesDistinctNoHyphen ==
    (Derived /\ \A r \in TableRoutes : ~HasHyphen(r.name)) => OnePerPair

\* two routes without hyphens in their names, one of them with two formats,
\* have been turned into three entrypoints
C5_Witness ==
    /\ Derived
    /\ Len(tRoutes.routes) = 2
    /\ \A r \in TableRoutes : ~HasHyphen(r.name)
    /\ \E r \in TableRoutes : Cardinality(FormatsOf(r)) = 2
    /\ Cardinality(DOMAIN tEntry.entrypoints) = 3

EmptyMethods ==
    { JsUndefined, JsNull, JsString(<< >>), JsArray(<< >>), JsObject(<< >>) }

\* C4: a route whose method is undefined, null, "", [] or {} gets the method
\* undefined in the routes file, and the method "GET" is emitted verbatim.
C4_MethodNormalization ==
    tPhase = "written" =>
        \A i \in 1..Len(tRoutes.routes) :
            /\ tRoutes.routes[i].method \in EmptyMethods =>
                  tFile.routes[i].method = <<"undefined">>
            /\ tRoutes.routes[i].method = JsString(<<"GET">>) =>
                  tFile.routes[i].method = <<"\"", "GET", "\"">>

-----------------------------------------------------------------------------
(* Claims about the compile orchestrator (Spec) *)

Called(i) == status[i] # "idle"
Returned(i) == status[i] = "returned"
WDir(i) == Cwd \o (IF opts[i].workingDir = Undefined THEN <<"__clientTemp">>
                   ELSE opts[i].workingDir)
ODir(i) == IF opts[i].outputDir = Undefined THEN WDir(i) \o <<"build">>
           ELSE Cwd \o opts[i].outputDir
Ops(i) == { effects[i][k].op : k \in 1..Len(effects[i]) }
\* the step is compile being called for invocation i
CompileStep(i) == status[i] = "idle" /\ status'[i] # "idle"
\* the step is a done callback of invocation i that runs to its end
CompletionStep(i) == count'[i].resolve = count[i].resolve + 1
\* no other invocation that compile returned for has i's output directory
AloneInOutputDir(i) ==
    Returned(i) /\ \A j \in Invs \ {i} : Returned(j) => ODir(j) # ODir(i)

\* C1: compile with hot and longTermCaching both true throws the
\* configuration error with nothing done: no directory created, no file
\* written, no compiler constructed, no done callback registered.
C1_ConfigErrorBeforeAnyMutation ==
    /\ [](\A i \in Invs :
            /\ (Called(i) /\ opts[i].hot /\ opts[i].longTermCaching)
                  => status[i] = "threwConfig"
            /\ status[i] = "threwConfig" =>
                  /\ effects[i] = << >>
                  /\ compiler[i] = NoCompiler
                  /\ plugins[i] = 0
                  /\ promise[i].state = "none")
    /\ [][\A i \in Invs :
            (CompileStep(i) /\ status'[i] = "threwConfig") =>
                (fs' = fs /\ dirs' = dirs)]_vars

\* a second invocation has thrown the configuration error on a file system
\* a first invocation had written to
C1_Witness ==
    /\ status[1] = "returned"
    /\ status[2] = "threwConfig"
    /\ fs # EmptyObject

\* C2: the serverRoutes promise is pending until a done event, is resolved
\* by the done event, settles once, never rejects, and holds the path of
\* routes_server.js in the working directory.
C2_ServerRoutesPromise ==
    /\ [](\A i \in Invs :
            /\ promise[i].state \in {"none", "pending", "resolved"}
            /\ promise[i].settled <= 1
            /\ Returned(i) <=> promise[i].state # "none"
            /\ (Returned(i) /\ count[i].done = 0) => promise[i].state = "pending"
            /\ (count[i].done >= 1 /\ AloneInOutputDir(i)) => promise[i].state = "resolved"
            /\ promise[i].state = "resolved" =>
                  promise[i].value = WDir(i) \o <<"routes_server.js">>)
    /\ [][\A i \in Invs :
            promise[i].state = "resolved" => promise'[i] = promise[i]]_vars

\* a hot and a non-hot invocation are both resolved, one of them after two
\* done events
C2_Witness ==
    /\ promise[1].state = "resolved" /\ promise[2].state = "resolved"
    /\ opts[1].hot /\ ~opts[2].hot
    /\ count[2].done = 2

\* the order of the completion steps of line 100-117
CompletionOrder(i) ==
    << Effect("statsToManifest", Undefined),
       Effect("write", ODir(i) \o <<"manifest.json">>) >>
    \o (IF opts[i].hot THEN << >>
        ELSE << Effect("unlink", ODir(i) \o <<"chunk-manifest.json">>) >>)
    \o << Effect("write", WDir(i) \o <<"routes_server.js">>) >>
    \o (IF opts[i].hot THEN << Effect("serverSideHotModuleReload", Undefined) >>
        ELSE << >>)
    \o << Effect("resolve", WDir(i) \o <<"routes_server.js">>) >>

\* C3: a done callback computes the manifest, writes manifest.json, deletes
\* chunk-manifest.json iff not hot, writes routes_server with the manifest,
\* notifies the hot-module-reload coordinator iff hot and resolves the
\* promise, in this order; when it resolves, manifest.json and routes_server
\* hold the manifest of the compilation and, if not hot, the output
\* directory holds no chunk-manifest.json.
C3_CompletionOrder ==
    /\ [](\A i \in Invs : "resolve" \in Ops(i) => effects[i] = CompletionOrder(i))
    /\ [][\A i \in Invs : CompletionStep(i) =>
            LET manifest == JSONstringifyManifest(statsToManifest(stats[i]))
            IN  /\ "resolve" \in Ops(i)'
                /\ promise'[i].state = "resolved"
                /\ fs'[ODir(i) \o <<"manifest.json">>] = [json |-> manifest]
                /\ fs'[WDir(i) \o <<"routes_server.js">>].manifest = manifest
                /\ ~opts[i].hot => (ODir(i) \o <<"chunk-manifest.json">>) \notin DOMAIN fs'
                /\ opts[i].hot => hmr' = stats[i]]_vars

\* the done callbacks of a hot and of a non-hot invocation have run to
\* their ends
C3_Witness ==
    /\ "resolve" \in Ops(1) /\ "resolve" \in Ops(2)
    /\ opts[1].hot /\ ~opts[2].hot
    /\ count[2].resolve = 2

\* some page module of the route table does not resolve
SomePageMissing(o) ==
    \E k \in 1..Len(o.routes.routes) :
        LET page == o.routes.routes[k].page
        IN  \/ page.isString /\ (Cwd \o page.module) \notin ModulesOnDisk
            \/ \E j \in 1..Len(page.formats) :
                  (Cwd \o page.formats[j].module) \notin ModulesOnDisk

\* C8: a page module that does not resolve makes compile throw at once: no
\* entrypoints reach the bundler, routes_client is not written, no
\* configuration is built, no compiler constructed, no callback registered.
C8_ResolutionErrorAborts ==
    /\ [](\A i \in Invs :
            /\ (Called(i) /\ status[i] # "threwConfig" /\ SomePageMissing(opts[i]))
                  => status[i] = "threwResolve"
            /\ status[i] = "threwResolve" =>
                  /\ Ops(i) \cap {"getWebpackConfig", "webpack", "plugin"} = {}
                  /\ Effect("write", WDir(i) \o <<"routes_client.js">>)
                        \notin { effects[i][k] : k \in 1..Len(effects[i]) }
                  /\ compiler[i] = NoCompiler
                  /\ plugins[i] = 0
                  /\ promise[i].state = "none"
                  /\ phase[i] = "none"
                  /\ count[i] = NoCount)
    /\ [][\A i \in Invs :
            (CompileStep(i) /\ status'[i] = "threwResolve") =>
                LET f == WDir(i)' \o <<"routes_client.js">>
                IN  IF f \in DOMAIN fs THEN fs'[f] = fs[f] ELSE f \notin DOMAIN fs']_vars

\* compile has thrown on the second route of a table whose first route had
\* resolved
C8_Witness ==
    \E i \in Invs :
        /\ status[i] = "threwResolve"
        /\ Len(opts[i].routes.routes) = 2
        /\ (WDir(i) \o <<"entry.js">>) \in DOMAIN fs

\* C9 (as claimed): the completion side effects happen at most once for one
\* invocation, however many done events the bundler emits.
C9_SideEffectsAtMostOnce ==
    \A i \in Invs :
        /\ count[i].manifest <= 1
        /\ count[i].unlink <= 1
        /\ count[i].routes <= 1
        /\ count[i].hmr <= 1

\* C9 (amended): the promise settles at most once however many done events
\* the bundler emits, while the callback runs on every done event: each
\* writes manifest.json and, running to its end, writes routes_server,
\* deletes chunk-manifest.json if not hot and notifies the coordinator if hot.
C9_CallbackOnEveryDoneEvent ==
    \A i \in Invs :
        /\ promise[i].settled <= 1
        /\ count[i].done = count[i].builds - (IF phase[i] = "emitted" THEN 1 ELSE 0)
        /\ count[i].manifest = count[i].done
        /\ count[i].routes = count[i].resolve
        /\ AloneInOutputDir(i) => count[i].resolve = count[i].done
        /\ ~Returned(i) => count[i] = NoCount
        /\ Returned(i) =>
              /\ count[i].unlink = (IF opts[i].hot THEN 0 ELSE count[i].resolve)
              /\ count[i].hmr = (IF opts[i].hot THEN count[i].resolve ELSE 0)

\* the callback of one invocation has run on two done events
C9_Witness ==
    \E i \in Invs :
        /\ count[i].done = 2
        /\ count[i].manifest = 2
        /\ count[i].routes = 2
        /\ promise[i].settled = 1

\* the files invocation i may write or delete
OwnFiles(i) ==
    { WDir(i) \o <<"entry.js">>, WDir(i) \o <<"routes_client.js">>,
      WDir(i) \o <<"routes_server.js">>, ODir(i) \o <<"manifest.json">>,
      ODir(i) \o <<"chunk-manifest.json">> }
Touched(i) ==
    { effects[i][k].path : k \in { l \in 1..Len(effects[i]) :
                                      effects[i][l].op \in {"write", "unlink"} } }
Apart(i, j) == WDir(i) # WDir(j) /\ ODir(i) # ODir(j)

====
